---- MODULE Spec2Model ----
\* Campaign dispatch of the MailerSend backend of wagtail-birdsong:
\* send_campaign -> SendCampaignThread.run (send_bulk, check_bulk_status,
\* seal_campaign) with the persisted Campaign row and Receipt table.
EXTENDS Integers, Sequences, FiniteSets, TLC

\* ---------------------------------------------------------------- bounds
MaxContacts == 2
MaxDispatches == 2
\* settings.MAILERSEND_MAX_NO_OF_BULK_STATUS_CHECKS (conf.py:4, default 10),
\* configured small here
MAILERSEND_MAX_NO_OF_BULK_STATUS_CHECKS == 2
MaxRawLen == 3

\* ------------------------------------------------------- program constants
ERROR_CODE_UNAUTHORIZED == 403
ERROR_CODE_DAILY_API_QUOTA_LIMIT_REACHED == 429
ERROR_CODE_BULK_EMAIL_NOT_FOUND == "Resource not found."
ERROR_CODE_BULK_CHECK_TIMED_OUT == 5001
BULK_STATE_COMPLETED == "completed"

UNSENT == "UNSENT"
SENDING == "SENDING"
SENT == "SENT"

\* An exception code is an int (403, 429, 5001) or a str (the not-found
\* message); both are carried in one record shape.
IntCode(n) == [isint |-> TRUE, n |-> n, s |-> ""]
StrCode(s) == [isint |-> FALSE, n |-> 0, s |-> s]

ERROR_CODES_timeout_unsent ==
  [c \in {IntCode(ERROR_CODE_UNAUTHORIZED),
          IntCode(ERROR_CODE_DAILY_API_QUOTA_LIMIT_REACHED),
          StrCode(ERROR_CODE_BULK_EMAIL_NOT_FOUND),
          IntCode(ERROR_CODE_BULK_CHECK_TIMED_OUT)} |-> UNSENT]

ERROR_CODES_notfound_sending ==
  [c \in {IntCode(ERROR_CODE_UNAUTHORIZED),
          IntCode(ERROR_CODE_DAILY_API_QUOTA_LIMIT_REACHED),
          StrCode(ERROR_CODE_BULK_EMAIL_NOT_FOUND),
          IntCode(ERROR_CODE_BULK_CHECK_TIMED_OUT)} |->
     IF c = IntCode(ERROR_CODE_UNAUTHORIZED)
          \/ c = IntCode(ERROR_CODE_DAILY_API_QUOTA_LIMIT_REACHED)
     THEN UNSENT ELSE SENDING]

ERROR_CODES ==
  [c \in {IntCode(ERROR_CODE_UNAUTHORIZED),
          IntCode(ERROR_CODE_DAILY_API_QUOTA_LIMIT_REACHED),
          StrCode(ERROR_CODE_BULK_EMAIL_NOT_FOUND),
          IntCode(ERROR_CODE_BULK_CHECK_TIMED_OUT)} |->
     IF c = IntCode(ERROR_CODE_BULK_CHECK_TIMED_OUT) THEN SENDING ELSE UNSENT]

\* ------------------------------------------------------------ python values
\* None for an int|void code; \d+ never yields a negative number
NoCode == 0 - 1
\* `not code` of Python: None and 0 are falsy
NotCode(code) == code = NoCode \/ code = 0

\* A validation_errors key is its text cut at the dots, dots included:
\* "message.1" is <<"message", ".", "1">>.
KeyOk0 == <<"message", ".", "0">>
KeyOk1 == <<"message", ".", "1">>
KeyAlt1 == <<"msg", ".", "1">>
KeyNoSep == <<"message">>
KeyNotInt == <<"message", ".", "x">>
KeyFar == <<"message", ".", "7">>
KeyNeg == <<"message", ".", "-1">>

\* validation_errors of a bulk status: null, or a mapping whose keys are
\* listed in insertion order (the values are only logged)
VE(isnull, keys) == [null |-> isnull, keys |-> keys]
VENull == VE(TRUE, <<>>)
ValidationErrorMaps ==
  { VE(FALSE, <<>>), VE(FALSE, <<KeyOk1, KeyOk0>>),
    VE(FALSE, <<KeyOk1, KeyAlt1>>), VE(FALSE, <<KeyNoSep, KeyOk0>>),
    VE(FALSE, <<KeyNotInt>>), VE(FALSE, <<KeyFar, KeyOk1>>),
    VE(FALSE, <<KeyNeg>>) }

\* A decoded JSON value: a dict with the keys in `has`, or a bare number.
Payload(isdict, has, message, id, state, ve) ==
  [isdict |-> isdict, has |-> has, message |-> message,
   bulk_email_id |-> id, state |-> state, validation_errors |-> ve]
NoPayload == Payload(FALSE, {}, "", "", "", VENull)
JsonNumber == Payload(FALSE, {}, "", "", "", VENull)
Ack == Payload(TRUE, {"message", "bulk_email_id"},
               "The bulk email is being processed.", "63e9130d", "", VENull)
AckNoId == Payload(TRUE, {"message"},
                   "The bulk email is being processed.", "", "", VENull)
Queued == Payload(TRUE, {"data", "state", "validation_errors"},
                  "", "", "queued", VENull)
Completed(ve) == Payload(TRUE, {"data", "state", "validation_errors"},
                         "", "", BULK_STATE_COMPLETED, ve)
NotFound == Payload(TRUE, {"message"}, ERROR_CODE_BULK_EMAIL_NOT_FOUND,
                    "", "", VENull)
Message(m) == Payload(TRUE, {"message"}, m, "", "", VENull)

\* The raw response text, cut into tokens: a run of digits, a run of
\* whitespace, a JSON text, or text that is none of these.
Num(n) == [t |-> "num", n |-> n, p |-> NoPayload]
WS == [t |-> "ws", n |-> 0, p |-> NoPayload]
Json(p) == [t |-> "json", n |-> 0, p |-> p]
Junk == [t |-> "junk", n |-> 0, p |-> NoPayload]

\* ------------------------------------------------------------ parse_response
RECURSIVE LStrip(_)
LStrip(s) == IF s # <<>> /\ Head(s).t = "ws" THEN LStrip(Tail(s)) ELSE s

RECURSIVE RStrip(_)
RStrip(s) ==
  IF s # <<>> /\ s[Len(s)].t = "ws" THEN RStrip(SubSeq(s, 1, Len(s) - 1)) ELSE s

\* json.loads: one JSON text (an object, or digits read as a number) with
\* optional whitespace around it; anything else raises
json_loads(text) ==
  LET s == RStrip(LStrip(text)) IN
  IF Len(s) = 1 /\ s[1].t = "json" THEN [ok |-> TRUE, p |-> s[1].p]
  ELSE IF Len(s) = 1 /\ s[1].t = "num" THEN [ok |-> TRUE, p |-> JsonNumber]
  ELSE [ok |-> FALSE, p |-> NoPayload]

\* re.findall(r'^(\d+)\s+(.*)$', response, DOTALL): digits, whitespace, rest
re_findall(text) ==
  IF Len(text) >= 2 /\ text[1].t = "num" /\ text[2].t = "ws"
  THEN [ok |-> TRUE, code |-> text[1].n, rest |-> SubSeq(text, 3, Len(text))]
  ELSE [ok |-> FALSE, code |-> NoCode, rest |-> <<>>]

\* The result of a call: a returned value or a raised exception.
\*   kind "none"   return None
\*   kind "pair"   return (code, response)
\*   kind "mailersend"  raise MailerSendException(message, exccode)
\*   kind "error"  raise any other exception
Result(kind, code, response, exccode) ==
  [kind |-> kind, code |-> code, response |-> response, exccode |-> exccode]
NoExc == IntCode(0)
ReturnNone == Result("none", NoCode, NoPayload, NoExc)
Return(code, response) == Result("pair", code, response, NoExc)
RaiseMailerSend(exccode) == Result("mailersend", NoCode, NoPayload, exccode)
RaiseError == Result("error", NoCode, NoPayload, NoExc)

\* parse_response as if it returned every decoded code
parse_response_unclassified(response) ==
  IF response = <<>> THEN ReturnNone
  ELSE IF json_loads(response).ok THEN Return(NoCode, json_loads(response).p)
  ELSE LET m == re_findall(response) IN
       IF ~m.ok \/ ~json_loads(m.rest).ok THEN RaiseError
       ELSE Return(m.code, json_loads(m.rest).p)

parse_response(response) ==
  IF response = <<>> THEN ReturnNone
  ELSE IF json_loads(response).ok THEN Return(NoCode, json_loads(response).p)
  ELSE LET m == re_findall(response) IN
       IF ~m.ok \/ ~json_loads(m.rest).ok THEN RaiseError
       ELSE IF m.code = ERROR_CODE_UNAUTHORIZED
            THEN RaiseMailerSend(IntCode(m.code))
       ELSE IF m.code = ERROR_CODE_DAILY_API_QUOTA_LIMIT_REACHED
            THEN RaiseMailerSend(IntCode(m.code))
       ELSE Return(m.code, json_loads(m.rest).p)

\* ------------------------------------------------------------- seal helpers
\* key.split('.'): the parts between the dots
IsPart(x) == x # "."
split(key) == SelectSeq(key, IsPart)

\* int(s) for the digit strings in use; any other text raises ValueError
IntText == {"0", "1", "2", "7", "-1"}
int(s) ==
  CASE s = "0" -> 0 [] s = "1" -> 1 [] s = "2" -> 2 [] s = "7" -> 7
    [] s = "-1" -> 0 - 1

\* The body of the try in seal_campaign's loop for one key: the contact id
\* appended to unsuccessful_contacts, or nothing when the body raises
\* (IndexError of split(..)[1], ValueError of int, IndexError of contacts[..]).
\* contacts is a list (send_campaign's docstring): a negative index counts
\* from the end of the list.
ResolveKey(key, contacts) ==
  LET parts == split(key) IN
  IF Len(parts) < 2 THEN <<>>
  ELSE IF parts[2] \notin IntText THEN <<>>
  ELSE LET contact_index == int(parts[2]) IN
       IF contact_index >= Len(contacts) \/ contact_index < 0 - Len(contacts)
       THEN <<>>
       ELSE IF contact_index < 0
       THEN <<contacts[Len(contacts) + contact_index + 1]>>
       ELSE <<contacts[contact_index + 1]>>

RECURSIVE Unsuccessful(_, _)
Unsuccessful(keys, contacts) ==
  IF keys = <<>> THEN <<>>
  ELSE ResolveKey(Head(keys), contacts) \o Unsuccessful(Tail(keys), contacts)

InSeq(x, s) == \E i \in 1..Len(s) : s[i] = x

CAMPAIGN_ID == 1

\* Receipt(campaign_id, contact_id, success); `dispatch` records which
\* dispatch inserted the row (history only, not a column)
Receipt(contact_id, success, d) ==
  [campaign_id |-> CAMPAIGN_ID, contact_id |-> contact_id,
   success |-> success, dispatch |-> d]

\* the Receipt rows, as if every contact were marked successful
ReceiptsFor_all_success(contacts, unsuccessful, d) ==
  [i \in 1..Len(contacts) |-> Receipt(contacts[i], 1, d)]

ReceiptsFor(contacts, unsuccessful, d) ==
  [i \in 1..Len(contacts) |->
     Receipt(contacts[i], IF InSeq(contacts[i], unsuccessful) THEN 0 ELSE 1, d)]

\* ------------------------------------------------------------- persistence
\* The database as other connections see it (db) and the writes of the open
\* transaction (tx).  A store is the pair of both.
EmptyTx == [receipts |-> <<>>, campaign |-> <<>>]

\* The Receipt table (birdsong.models.Receipt): append-only, rows are only
\* inserted, and no constraint makes (campaign, contact) unique.
InsertRows(table, rows) == table \o rows
Store(db, tx) == [db |-> db, tx |-> tx]

\* Receipt.objects.bulk_create outside any atomic block (autocommit)
bulk_create_autocommit(store, rows) ==
  Store([store.db EXCEPT !.receipts = InsertRows(@, rows)], store.tx)

\* Receipt.objects.bulk_create inside transaction.atomic()
bulk_create(store, rows) ==
  Store(store.db, [store.tx EXCEPT !.receipts = InsertRows(@, rows)])

\* campaign.save() inside transaction.atomic()
save_in_atomic(store, campaign) ==
  Store(store.db, [store.tx EXCEPT !.campaign = <<campaign>>])

\* campaign.save() in autocommit mode (the except handlers)
save(db, campaign) ==
  [db EXCEPT !.status = campaign.status, !.sent_date = campaign.sent_date]

\* leaving the outermost atomic block normally: the transaction commits
atomic_commit(store) ==
  LET d1 == [store.db EXCEPT !.receipts = InsertRows(@, store.tx.receipts)] IN
  IF store.tx.campaign = <<>> THEN d1 ELSE save(d1, store.tx.campaign[1])

\* leaving the atomic block with an exception: the transaction rolls back
atomic_rollback(store) == store.db

\* ------------------------------------------------------------------- state
VARIABLES
  raw_response, parsed,      \* a call of parse_response: argument, outcome
  caller,                    \* position of the code that calls send_campaign
  pc,                        \* position of the dispatch: idle, then run()'s
  dispatches,                \* send_campaign calls made so far
  test_send, contacts, email_messages, campaign,   \* SendCampaignThread.self
  code, response,            \* locals (code, response) of run / the poller
  bulk_email_id, checked_n_amount_of_times,        \* locals of the poller
  unsuccessful_contacts,     \* local of seal_campaign
  exc,                       \* the exception in flight, kind "none" if none
  tx, db,                    \* open transaction, committed database
  messages,                  \* django messages stored on self.request
  \* history of the current dispatch
  polled,                    \* raw answers of its status queries, in order
  writes,                    \* campaign statuses it has committed, in order
  closed,                    \* close_old_connections() calls
  before,                    \* db when send_campaign was called
  dbfault                    \* a database call of seal_campaign raised

vars == <<raw_response, parsed, caller, pc, dispatches, test_send, contacts,
          email_messages, campaign,
          code, response, bulk_email_id, checked_n_amount_of_times,
          unsuccessful_contacts, exc, tx, db, messages, polled, writes,
          closed, before, dbfault>>

selfVars == <<test_send, contacts, email_messages>>
parseVars == <<raw_response, parsed>>
histVars == <<before, dbfault, dispatches>>

ContactIds == 1..MaxContacts

\* the recipient lists: ordered lists of distinct contacts, the contact at
\* index i being contact MaxContacts - i
RecipientLists ==
  { [i \in 1..n |-> MaxContacts + 1 - i] : n \in 0..MaxContacts }

\* what mailersend.send_bulk can answer
SubmitResponses ==
  { <<>>,
    <<Num(202), WS, Json(Ack)>>,
    <<Json(Ack)>>,
    <<Num(202), WS, Json(AckNoId)>>,
    <<Num(202)>>,
    <<Num(ERROR_CODE_UNAUTHORIZED), WS, Json(Message("This action is unauthorized."))>>,
    <<Num(ERROR_CODE_DAILY_API_QUOTA_LIMIT_REACHED), WS,
      Json(Message("Daily API quota limit was reached."))>>,
    <<Junk>> }

\* what mailersend.get_bulk_status_by_id can answer
StatusResponses ==
  { <<Json(Queued)>>,
    <<Json(NotFound)>>,
    <<Num(404), WS, Json(NotFound)>>,
    <<Num(ERROR_CODE_DAILY_API_QUOTA_LIMIT_REACHED), WS,
      Json(Message("Daily API quota limit was reached."))>>,
    <<>>,
    <<Junk>>,
    <<Json(Completed(VENull))>> }
  \cup { <<Json(Completed(ve))>> : ve \in ValidationErrorMaps }

\* the exception in flight: its kind, its code and where run() was (at)
NoException == [kind |-> "none", code |-> NoExc, at |-> ""]
Exception(r, at) == [kind |-> r.kind, code |-> r.exccode, at |-> at]

Msg(level, text, n) == [level |-> level, text |-> text, n |-> n]

Init ==
  /\ raw_response = <<>>
  /\ parsed = ReturnNone
  /\ caller = "none"
  /\ pc = "idle"
  /\ dispatches = 0
  /\ test_send = FALSE
  /\ contacts = <<>>
  /\ email_messages = <<>>
  /\ campaign = [status |-> UNSENT, sent_date |-> 0]
  /\ code = NoCode
  /\ response = NoPayload
  /\ bulk_email_id = ""
  /\ checked_n_amount_of_times = 0
  /\ unsuccessful_contacts = <<>>
  /\ exc = NoException
  /\ tx = EmptyTx
  /\ db = [status |-> UNSENT, sent_date |-> 0, receipts |-> <<>>]
  /\ messages = <<>>
  /\ polled = <<>>
  /\ writes = <<>>
  /\ closed = 0
  /\ before = [status |-> UNSENT, sent_date |-> 0, receipts |-> <<>>]
  /\ dbfault = FALSE


\* timezone.now(): logical time, the ordinal of the running dispatch
now == dispatches

\* (code, response) = <call>: unpacking None raises TypeError
Unpack(r) == IF r.kind = "none" THEN RaiseError ELSE r

\* an exception leaves the atomic block of run(): rollback, then the handlers
Raise(r) ==
  /\ exc' = Exception(r, pc)
  /\ db' = atomic_rollback(Store(db, tx))
  /\ tx' = EmptyTx
  /\ pc' = "except"

\* MailersendEmailBackend.send_campaign: render one message per contact,
\* construct the thread and start it.  The campaign object is the row as the
\* caller loaded it for this request.
send_campaign(recipients, test) ==
  /\ caller # "sleeping"
  /\ pc \in {"idle", "done"}
  /\ caller' = "sleeping"
  /\ dispatches < MaxDispatches
  /\ dispatches' = dispatches + 1
  /\ test_send' = test
  /\ contacts' = recipients
  /\ email_messages' = [i \in 1..Len(recipients) |-> [to |-> recipients[i]]]
  /\ campaign' = [status |-> db.status, sent_date |-> db.sent_date]
  /\ code' = NoCode
  /\ response' = NoPayload
  /\ bulk_email_id' = ""
  /\ checked_n_amount_of_times' = 0
  /\ unsuccessful_contacts' = <<>>
  /\ exc' = NoException
  /\ tx' = EmptyTx
  /\ messages' = <<>>
  /\ polled' = <<>>
  /\ writes' = <<>>
  /\ closed' = 0
  /\ before' = db
  /\ dbfault' = FALSE
  /\ pc' = "send_bulk"
  /\ UNCHANGED <<parseVars, db>>

\* where run() goes after send_bulk has returned a pair
AfterSendBulk_no_test_return(test) == "check_bulk_status"

AfterSendBulk(test) == IF test THEN "finally" ELSE "check_bulk_status"

\* run(): (code, response) = self.backend.send_bulk(self.email_messages)
\* and the test_send return.  r is what send_bulk returns or raises.
SendBulkResult(r) ==
  /\ pc = "send_bulk"
  /\ IF Unpack(r).kind = "pair"
     THEN /\ code' = r.code
          /\ response' = r.response
          /\ pc' = AfterSendBulk(test_send)
          /\ UNCHANGED <<exc, tx, db>>
     ELSE /\ Raise(Unpack(r))
          /\ UNCHANGED <<code, response>>
  /\ UNCHANGED <<parseVars, caller, selfVars, histVars, campaign,
                 bulk_email_id, checked_n_amount_of_times,
                 unsuccessful_contacts, messages, polled, writes, closed>>

SendBulk == \E raw \in SubmitResponses : SendBulkResult(parse_response(raw))

\* the provider call itself raises (connection error inside the SDK)
SendBulkRaises == SendBulkResult(RaiseError)

\* check_bulk_status: bulk_email_id = response['bulk_email_id']
CheckBulkStatus ==
  /\ pc = "check_bulk_status"
  /\ IF response.isdict /\ "bulk_email_id" \in response.has
     THEN /\ bulk_email_id' = response.bulk_email_id
          /\ checked_n_amount_of_times' = 0
          /\ pc' = "poll"
          /\ UNCHANGED <<exc, tx, db>>
     ELSE /\ Raise(RaiseError)
          /\ UNCHANGED <<bulk_email_id, checked_n_amount_of_times>>
  /\ UNCHANGED <<parseVars, caller, selfVars, histVars, campaign, code,
                 response, unsuccessful_contacts, messages, polled, writes,
                 closed>>

\* not code and "message" in response and response['message'] == "Resource not found."
IsNotFound(c, resp) ==
  NotCode(c) /\ "message" \in resp.has
             /\ resp.message = ERROR_CODE_BULK_EMAIL_NOT_FOUND

\* the completed test, as if any reported state ended the polling
IsCompleted_any_state(resp) == "data" \in resp.has /\ "state" \in resp.has

\* "data" in response and "state" in response["data"] and state == completed
IsCompleted(resp) ==
  "data" \in resp.has /\ "state" \in resp.has /\ resp.state = BULK_STATE_COMPLETED

\* the loop condition of the poller, off by one
MayCheckAgain_inclusive(n) == n <= MAILERSEND_MAX_NO_OF_BULK_STATUS_CHECKS

\* while checked_n_amount_of_times < MAILERSEND_MAX_NO_OF_BULK_STATUS_CHECKS
MayCheckAgain(n) == n < MAILERSEND_MAX_NO_OF_BULK_STATUS_CHECKS

\* one iteration of the poller's loop; r is what get_bulk_status_by_id
\* returns or raises for the raw answer
PollResult(raw, r) ==
  /\ pc = "poll"
  /\ MayCheckAgain(checked_n_amount_of_times)
  /\ polled' = Append(polled, raw)
  /\ IF Unpack(r).kind # "pair"
     THEN /\ Raise(Unpack(r))
          /\ UNCHANGED <<code, response, checked_n_amount_of_times, messages>>
     ELSE /\ code' = r.code
          /\ response' = r.response
          /\ IF ~r.response.isdict
             THEN \* "data" in <number> raises TypeError
                  /\ Raise(RaiseError)
                  /\ UNCHANGED <<checked_n_amount_of_times, messages>>
             ELSE IF IsCompleted(r.response)
             THEN /\ pc' = "seal_campaign"
                  /\ UNCHANGED <<exc, tx, db, checked_n_amount_of_times, messages>>
             ELSE IF IsNotFound(r.code, r.response)
             THEN /\ Raise(RaiseMailerSend(StrCode(ERROR_CODE_BULK_EMAIL_NOT_FOUND)))
                  /\ UNCHANGED <<checked_n_amount_of_times, messages>>
             ELSE /\ checked_n_amount_of_times' = checked_n_amount_of_times + 1
                  /\ messages' = Append(messages, Msg("success", "initiated", 0))
                  /\ UNCHANGED <<pc, exc, tx, db>>
  /\ UNCHANGED <<parseVars, caller, selfVars, histVars, campaign,
                 bulk_email_id, unsuccessful_contacts, writes, closed>>

Poll == \E raw \in StatusResponses : PollResult(raw, parse_response(raw))

\* the loop ends without a completed answer: the timed-out message and the
\* MailerSendException with code 5001
PollTimedOut ==
  /\ pc = "poll"
  /\ ~MayCheckAgain(checked_n_amount_of_times)
  /\ messages' = Append(messages, Msg("success", "timed_out", 0))
  /\ Raise(RaiseMailerSend(IntCode(ERROR_CODE_BULK_CHECK_TIMED_OUT)))
  /\ UNCHANGED <<parseVars, caller, selfVars, histVars, campaign, code,
                 response, bulk_email_id, checked_n_amount_of_times,
                 unsuccessful_contacts, polled, writes, closed>>

\* seal_campaign(response['data']['validation_errors']), up to the end of
\* its loop over validation_errors.items(): None has no items() and the
\* call is outside the loop's try
SealPartition ==
  /\ pc = "seal_campaign"
  /\ IF "validation_errors" \notin response.has \/ response.validation_errors.null
     THEN /\ Raise(RaiseError)
          /\ UNCHANGED unsuccessful_contacts
     ELSE /\ unsuccessful_contacts' =
               Unsuccessful(response.validation_errors.keys, contacts)
          /\ pc' = "bulk_create"
          /\ UNCHANGED <<exc, tx, db>>
  /\ UNCHANGED <<parseVars, caller, selfVars, histVars, campaign, code,
                 response, bulk_email_id, checked_n_amount_of_times, messages,
                 polled, writes, closed>>

\* seal_campaign inside its atomic block: bulk_create of one Receipt per
\* contact, the summary messages, status and sent_date set on the object
SealBulkCreate ==
  /\ pc = "bulk_create"
  /\ LET st == bulk_create(Store(db, tx),
                 ReceiptsFor(contacts, unsuccessful_contacts, dispatches))
     IN /\ db' = st.db
        /\ tx' = st.tx
  /\ messages' =
       Append(messages, Msg("success", "sent",
                            Len(contacts) - Len(unsuccessful_contacts)))
       \o (IF Len(unsuccessful_contacts) > 0
           THEN <<Msg("warning", "unable", Len(unsuccessful_contacts))>>
           ELSE <<>>)
  /\ campaign' = [status |-> SENT, sent_date |-> now]
  /\ pc' = "save"
  /\ UNCHANGED <<parseVars, caller, selfVars, histVars, code, response,
                 bulk_email_id, checked_n_amount_of_times,
                 unsuccessful_contacts, exc, polled, writes, closed>>

\* self.campaign.save() at the end of seal_campaign
SealSave ==
  /\ pc = "save"
  /\ LET st == save_in_atomic(Store(db, tx), campaign)
     IN /\ db' = st.db
        /\ tx' = st.tx
  /\ pc' = "commit"
  /\ UNCHANGED <<parseVars, caller, selfVars, histVars, campaign, code,
                 response, bulk_email_id, checked_n_amount_of_times,
                 unsuccessful_contacts, exc, messages, polled, writes,
                 closed>>

\* a database call of seal_campaign raises (bulk_create or save)
SealDatabaseError ==
  /\ pc \in {"bulk_create", "save"}
  /\ dbfault' = TRUE
  /\ Raise(RaiseError)
  /\ UNCHANGED <<parseVars, caller, selfVars, before, dispatches, campaign,
                 code, response, bulk_email_id, checked_n_amount_of_times,
                 unsuccessful_contacts, messages, polled, writes, closed>>

StatusesOf(rows) == [i \in 1..Len(rows) |-> rows[i].status]

\* seal_campaign returns and run() leaves its atomic block: commit
Commit ==
  /\ pc = "commit"
  /\ db' = atomic_commit(Store(db, tx))
  /\ writes' = writes \o StatusesOf(tx.campaign)
  /\ tx' = EmptyTx
  /\ pc' = "finally"
  /\ UNCHANGED <<parseVars, caller, selfVars, histVars, campaign, code,
                 response, bulk_email_id, checked_n_amount_of_times,
                 unsuccessful_contacts, exc, messages, polled, closed>>

\* campaign_fallback_status of the MailerSendException handler
FallbackStatus(c) == IF c \in DOMAIN ERROR_CODES THEN ERROR_CODES[c] ELSE UNSENT

\* whether a handler skips the fallback write:
\* `if self.test_send: return` exists in the MailerSendException handler only
SkipsFallback(kind, test) == kind = "mailersend" /\ test

\* the fallback write of the bare except, as if it wrote nothing
GenericFallback_none(status) == status

\* self.campaign.status = CampaignStatus.UNSENT in the bare except
GenericFallback(status) == UNSENT

\* the error messages a handler of run() emits before its fallback write
\* (as if it emitted none)
ErrorMessages_none(kind, c) == <<>>

\* messages.error(...) of the MailerSendException handler (with the detail
\* of a known code) and of the bare except: one call in either handler
ErrorMessages(kind, c) ==
  <<Msg("error",
        IF kind = "mailersend"
        THEN (IF c \in DOMAIN ERROR_CODES
              THEN "mailersend_error_detail" ELSE "mailersend_error")
        ELSE "error", 0)>>

\* where the handler goes after its message, as if its `return` left run()
\* without the finally clause
AfterReport_return_skips_finally(skips) == IF skips THEN "done" ELSE "fallback"

\* after messages.error: `if self.test_send: return` leaves through the
\* finally clause, otherwise the fallback write follows
AfterReport(skips) == IF skips THEN "finally" ELSE "fallback"

\* except MailerSendException / bare except of run(), first statement(s):
\* the error message; `if self.test_send: return` leaves the handler
ReportError ==
  /\ pc = "except"
  /\ messages' = messages \o ErrorMessages(exc.kind, exc.code)
  /\ pc' = AfterReport(SkipsFallback(exc.kind, test_send))
  /\ UNCHANGED <<parseVars, caller, selfVars, histVars, campaign, code,
                 response, bulk_email_id, checked_n_amount_of_times,
                 unsuccessful_contacts, exc, tx, db, polled, writes, closed>>

\* the rest of the handler: the fallback status is set and saved
FallbackSave ==
  /\ pc = "fallback"
  /\ campaign' = [campaign EXCEPT !.status =
                    IF exc.kind = "mailersend"
                    THEN FallbackStatus(exc.code)
                    ELSE GenericFallback(campaign.status)]
  /\ db' = save(db, campaign')
  /\ writes' = Append(writes, campaign'.status)
  /\ pc' = "finally"
  /\ UNCHANGED <<parseVars, caller, selfVars, histVars, code, response,
                 bulk_email_id, checked_n_amount_of_times,
                 unsuccessful_contacts, exc, tx, messages, polled, closed>>

\* finally: close_old_connections()
Finally ==
  /\ pc = "finally"
  /\ closed' = closed + 1
  /\ pc' = "done"
  /\ UNCHANGED <<parseVars, caller, selfVars, histVars, campaign, code,
                 response, bulk_email_id, checked_n_amount_of_times,
                 unsuccessful_contacts, exc, tx, db, messages, polled,
                 writes>>

\* whether send_campaign may return at thread position p, as if it joined
\* the thread
CanReturn_joined(p) == p = "done"

\* send_campaign after start(): sleep(1), then it returns; it does not join
\* the thread
CanReturn(p) == TRUE

\* send_campaign returns to its caller
CallerReturn ==
  /\ caller = "sleeping"
  /\ CanReturn(pc)
  /\ caller' = "returned"
  /\ UNCHANGED <<parseVars, pc, selfVars, histVars, campaign, code, response,
                 bulk_email_id, checked_n_amount_of_times,
                 unsuccessful_contacts, exc, tx, db, messages, polled, writes,
                 closed>>

Next ==
  \/ \E recipients \in RecipientLists, test \in BOOLEAN :
        send_campaign(recipients, test)
  \/ CallerReturn
  \/ SendBulk
  \/ SendBulkRaises
  \/ CheckBulkStatus
  \/ Poll
  \/ PollTimedOut
  \/ SealPartition
  \/ SealBulkCreate
  \/ SealSave
  \/ SealDatabaseError
  \/ Commit
  \/ ReportError
  \/ FallbackSave
  \/ Finally

Spec == Init /\ [][Next]_vars

\* self.contacts = contacts keeps the caller's list object, not a copy: once
\* send_campaign has returned, the caller's contacts.pop() is seen by the
\* running thread
CallerMutatesList ==
  /\ caller = "returned"
  /\ pc \notin {"idle", "done"}
  /\ contacts # <<>>
  /\ contacts' = SubSeq(contacts, 1, Len(contacts) - 1)
  /\ UNCHANGED <<parseVars, caller, pc, test_send, email_messages, histVars,
                 campaign, code, response, bulk_email_id,
                 checked_n_amount_of_times, unsuccessful_contacts, exc, tx,
                 db, messages, polled, writes, closed>>

\* the dispatch together with a caller that goes on using its list
MutNext == Next \/ CallerMutatesList

MutSpec == Init /\ [][MutNext]_vars

\* the thread, once started, keeps running until run() has returned
Run ==
  \/ SendBulk \/ CheckBulkStatus \/ Poll \/ PollTimedOut \/ SealPartition
  \/ SealBulkCreate \/ SealSave \/ Commit \/ ReportError \/ FallbackSave
  \/ Finally

FairSpec == Spec /\ WF_vars(Run)

\* ------------------------------------------- parse_response on its own
\* the tokens a raw response is made of
RawTokens ==
  { Num(202), Num(ERROR_CODE_UNAUTHORIZED),
    Num(ERROR_CODE_DAILY_API_QUOTA_LIMIT_REACHED), WS, Json(Ack),
    Json(Message("Daily API quota limit was reached.")), Junk }

\* digits, whitespace and other text come in maximal runs
IsRun(tok) == tok.t \in {"num", "ws", "junk"}
Tokenised(text) ==
  \A i \in 1..(Len(text) - 1) : ~(IsRun(text[i]) /\ text[i + 1].t = text[i].t)

\* the response texts of up to MaxRawLen tokens
RawTexts ==
  { text \in UNION { [1..n -> RawTokens] : n \in 0..MaxRawLen } :
      Tokenised(text) }

ParseInit ==
  /\ raw_response \in RawTexts
  /\ parsed = ReturnNone
  /\ caller = "none"
  /\ pc = "parse"
  /\ dispatches = 0
  /\ test_send = FALSE
  /\ contacts = <<>>
  /\ email_messages = <<>>
  /\ campaign = [status |-> UNSENT, sent_date |-> 0]
  /\ code = NoCode
  /\ response = NoPayload
  /\ bulk_email_id = ""
  /\ checked_n_amount_of_times = 0
  /\ unsuccessful_contacts = <<>>
  /\ exc = NoException
  /\ tx = EmptyTx
  /\ db = [status |-> UNSENT, sent_date |-> 0, receipts |-> <<>>]
  /\ messages = <<>>
  /\ polled = <<>>
  /\ writes = <<>>
  /\ closed = 0
  /\ before = [status |-> UNSENT, sent_date |-> 0, receipts |-> <<>>]
  /\ dbfault = FALSE

\* one call parse_response(raw_response)
ParseResponse ==
  /\ pc = "parse"
  /\ parsed' = parse_response(raw_response)
  /\ pc' = "parsed"
  /\ UNCHANGED <<raw_response, caller, selfVars, histVars, campaign, code,
                 response, bulk_email_id, checked_n_amount_of_times,
                 unsuccessful_contacts, exc, tx, db, messages, polled, writes,
                 closed>>

ParseNext == ParseResponse

ParseSpec == ParseInit /\ [][ParseNext]_vars

\* ---------------------------------------------------------------- properties
IsMine(r) == r.dispatch = dispatches
\* the Receipts the current dispatch has persisted
MyReceipts == SelectSeq(db.receipts, IsMine)

IsSENT(x) == x = SENT
SentWrites == Len(SelectSeq(writes, IsSENT))

Failed == exc.kind # "none"
TimedOut ==
  exc.kind = "mailersend" /\ exc.code = IntCode(ERROR_CODE_BULK_CHECK_TIMED_OUT)

\* the decoded answer of a status query
Answer(raw) == Unpack(parse_response(raw))
AnsweredCompleted(raw) ==
  Answer(raw).kind = "pair" /\ Answer(raw).response.isdict
                            /\ IsCompleted(Answer(raw).response)
AnsweredNotFound(raw) ==
  /\ Answer(raw).kind = "pair"
  /\ Answer(raw).response.isdict
  /\ "message" \in Answer(raw).response.has
  /\ Answer(raw).response.message = ERROR_CODE_BULK_EMAIL_NOT_FOUND

HasErrorMessage == \E i \in 1..Len(messages) : messages[i].level = "error"

\* C1: a non-test dispatch whose submission is acknowledged with a batch
\* identifier and whose status query reports 'completed' within the budget,
\* with validation_errors a mapping or null, ends with N Receipts, status
\* SENT, sent_date set and exactly one write of SENT.
C1_CompletedDispatchSeals ==
  ( /\ pc = "done"
    /\ ~test_send
    /\ ~dbfault
    /\ bulk_email_id # ""
    /\ polled # <<>>
    /\ AnsweredCompleted(polled[Len(polled)]) )
  => ( /\ Len(MyReceipts) = Len(contacts)
       /\ db.status = SENT
       /\ db.sent_date # 0
       /\ SentWrites = 1 )

\* C2: in every persisted state during or after a dispatch, either the
\* dispatch has set the status to SENT and all N of its Receipts exist, or
\* none of its Receipts exist and it has not set the status to SENT; also
\* when a database call raises in the middle of seal_campaign.
C2_SealAllOrNothing ==
  \/ SentWrites > 0 /\ Len(MyReceipts) = Len(contacts) /\ db.status = SENT
  \/ SentWrites = 0 /\ Len(MyReceipts) = 0

C2_Witness_RolledBack ==
  /\ pc = "done"
  /\ dbfault
  /\ exc.at = "save"
  /\ Len(contacts) = MaxContacts
  /\ Len(MyReceipts) = 0
  /\ db.status = UNSENT

\* C3: a non-test dispatch that fails during submission or polling with
\* anything but a poll timeout ends with status UNSENT persisted and no
\* Receipt of that dispatch.
C3_FailureFallsBackToUnsent ==
  ( /\ pc = "done"
    /\ ~test_send
    /\ Failed
    /\ exc.at \in {"send_bulk", "check_bulk_status", "poll"}
    /\ ~TimedOut )
  => ( db.status = UNSENT /\ Len(MyReceipts) = 0 )

C3_Witness_SentRevertedByFailure ==
  /\ pc = "done"
  /\ ~test_send
  /\ exc.kind = "error"
  /\ exc.at = "poll"
  /\ before.status = SENT
  /\ db.status = UNSENT

\* C4: when the poller exhausts its budget in a non-test dispatch, the
\* fallback status of the table is SENDING, it is the persisted status when
\* the dispatch ends, and no Receipt is written.
C4_TimeoutPersistsSending ==
  ( pc = "done" /\ ~test_send /\ TimedOut )
  => ( /\ FallbackStatus(exc.code) = SENDING
       /\ db.status = SENDING
       /\ writes = <<SENDING>>
       /\ Len(MyReceipts) = 0 )

C4_Witness_TimedOut ==
  /\ pc = "done"
  /\ ~test_send
  /\ TimedOut
  /\ Len(polled) = MAILERSEND_MAX_NO_OF_BULK_STATUS_CHECKS
  /\ db.status = SENDING

\* C5 (as claimed): every write of the campaign status by a dispatch, on any
\* path including the poll timeout, sets it to SENT or UNSENT.
C5_NeverPersistsSending ==
  \A i \in 1..Len(writes) : writes[i] \in {SENT, UNSENT}

\* C5 (amended): every write of the campaign status by a dispatch sets it to
\* SENT or UNSENT, except the fallback write after a poll timeout, which
\* sets it to SENDING.
C5_SendingOnlyOnTimeout ==
  \A i \in 1..Len(writes) :
     \/ writes[i] \in {SENT, UNSENT} /\ ~TimedOut
     \/ writes[i] = SENDING /\ TimedOut

C5_Witness_SendingWritten ==
  /\ pc = "finally"
  /\ TimedOut
  /\ writes = <<SENDING>>
  /\ before.status = UNSENT
  /\ db.status = SENDING

\* C6: a failed test-send dispatch (classified or unclassified failure)
\* reports an error message, leaves the persisted status as it was before
\* the dispatch and writes no Receipt.
C6_FailedTestSendKeepsStatus ==
  ( pc = "done" /\ test_send /\ Failed )
  => ( /\ HasErrorMessage
       /\ db.status = before.status
       /\ Len(MyReceipts) = 0 )

\* C7: a test-send dispatch whose submission succeeds stops after the
\* submission: no status query, no seal, no Receipt, status and sent_date
\* unchanged.
C7_TestSendStopsAfterSubmission ==
  ( test_send /\ ~Failed )
  => ( /\ pc \in {"send_bulk", "finally", "done"}
       /\ polled = <<>>
       /\ writes = <<>>
       /\ tx = EmptyTx
       /\ db = before )

C7_Witness_TestSendDone ==
  /\ pc = "done"
  /\ test_send
  /\ ~Failed
  /\ code = 202
  /\ Len(contacts) = 1
  /\ before.status = SENT

AllQueued(s) == \A i \in 1..Len(s) : s[i] = <<Json(Queued)>>

\* the safety part of C8, state by state
PollerWithinBudget ==
  /\ Len(polled) <= MAILERSEND_MAX_NO_OF_BULK_STATUS_CHECKS
  /\ \A k \in 0..(MAILERSEND_MAX_NO_OF_BULK_STATUS_CHECKS - 1) :
       ( /\ Len(polled) = k + 1
         /\ AllQueued(SubSeq(polled, 1, k))
         /\ AnsweredCompleted(polled[k + 1]) )
       => ( /\ pc # "poll"
            /\ exc.at # "poll"
            /\ checked_n_amount_of_times = k
            /\ response = Answer(polled[k + 1]).response )
  /\ ( Len(polled) = MAILERSEND_MAX_NO_OF_BULK_STATUS_CHECKS /\ AllQueued(polled) )
       => ( /\ checked_n_amount_of_times = MAILERSEND_MAX_NO_OF_BULK_STATUS_CHECKS
            /\ \/ pc = "poll"
               \/ TimedOut /\ exc.at = "poll" )
  /\ TimedOut => Len(polled) = MAILERSEND_MAX_NO_OF_BULK_STATUS_CHECKS

\* C8: the poller issues at most max_attempts status queries and always
\* terminates; after k 'queued' answers and then 'completed' (k below
\* max_attempts) it returns the completed payload on query k+1, and when
\* only 'queued' is answered it raises the timed-out error (5001) after
\* exactly max_attempts queries.
C8_PollerBoundedAndTerminates ==
  /\ []PollerWithinBudget
  /\ (pc = "poll") ~> (pc # "poll")

C8_Witness_CompletedOnLastAttempt ==
  /\ pc = "seal_campaign"
  /\ Len(polled) = MAILERSEND_MAX_NO_OF_BULK_STATUS_CHECKS
  /\ AllQueued(SubSeq(polled, 1, Len(polled) - 1))
  /\ AnsweredCompleted(polled[Len(polled)])

\* C9: a status answer whose payload reports 'Resource not found.', with or
\* without a numeric code in front, makes the poller raise the
\* batch-not-found error on that same attempt; no status query follows it.
C9_NotFoundRaisesAtOnce ==
  \A i \in 1..Len(polled) :
     AnsweredNotFound(polled[i])
     => ( /\ i = Len(polled)
          /\ exc.kind = "mailersend"
          /\ exc.code = StrCode(ERROR_CODE_BULK_EMAIL_NOT_FOUND)
          /\ exc.at = "poll" )

\* the recipient list of dispatch d, read off the Receipts it has persisted
SealedList(d) ==
  LET ByD(r) == r.dispatch = d
      rows == SelectSeq(db.receipts, ByD)
  IN [i \in 1..Len(rows) |-> rows[i].contact_id]

\* C10: after any sequence of dispatches of the campaign to the same
\* recipient list there is at most one Receipt per (campaign, contact).
C10_NoDuplicateReceipts ==
  ( \A d1, d2 \in 1..dispatches :
       SealedList(d1) # <<>> /\ SealedList(d2) # <<>>
       => SealedList(d1) = SealedList(d2) )
  => \A c \in ContactIds :
        Cardinality({ i \in 1..Len(db.receipts) :
                        /\ db.receipts[i].campaign_id = CAMPAIGN_ID
                        /\ db.receipts[i].contact_id = c }) <= 1

\* the dispatch has sealed: its Receipts and the SENT status are committed
Sealed == pc \in {"finally", "done"} /\ SentWrites > 0

\* the validation_errors the seal was given
SealKeys == response.validation_errors.keys

\* a key of the form <prefix>.<N> with N an index into a list of n recipients
WellFormedKey(key, n) ==
  /\ Len(key) = 3
  /\ key[2] = "."
  /\ key[3] \in {"0", "1", "2"}
  /\ int(key[3]) < n

\* the positions (from 0) named by the well-formed keys
NamedPositions(keys, n) ==
  { int(keys[j][3]) : j \in { k \in 1..Len(keys) : WellFormedKey(keys[k], n) } }

\* C11: for N distinct recipients and a validation-error map whose keys all
\* resolve to indices in 0..N-1, the seal writes exactly one Receipt per
\* recipient, with success=false iff the recipient's position is an index of
\* the map; the success=false Receipts are as many as the distinct indices.
C11_OneReceiptPerRecipient ==
  ( /\ Sealed
    /\ \A j \in 1..Len(SealKeys) : WellFormedKey(SealKeys[j], Len(contacts)) )
  => ( /\ Len(MyReceipts) = Len(contacts)
       /\ \A i \in 1..Len(contacts) :
            /\ MyReceipts[i].contact_id = contacts[i]
            /\ MyReceipts[i].campaign_id = CAMPAIGN_ID
            /\ (MyReceipts[i].success = 0
                  <=> (i - 1) \in NamedPositions(SealKeys, Len(contacts)))
       /\ Cardinality({ i \in 1..Len(MyReceipts) : MyReceipts[i].success = 0 })
            = Cardinality(NamedPositions(SealKeys, Len(contacts))) )

C11_Witness_TwoKeysOneRecipient ==
  /\ Sealed
  /\ Len(contacts) = 2
  /\ SealKeys = <<KeyOk1, KeyAlt1>>
  /\ MyReceipts[1].success = 1
  /\ MyReceipts[2].success = 0

\* the seal ran to its end for a validation_errors mapping
SealRan == pc = "done" /\ ~test_send /\ ~dbfault /\ polled # <<>>
             /\ AnsweredCompleted(polled[Len(polled)])
             /\ ~response.validation_errors.null

\* C17: a validation-error key that does not resolve to a position in
\* 0..N-1 (no separator, non-integer index, index >= N, negative index) is
\* skipped: it changes no Receipt's success flag and does not abort the
\* seal, which still writes N Receipts and sets the status SENT.
C17_UnresolvableKeysSkipped ==
  SealRan
  => ( /\ db.status = SENT
       /\ Len(MyReceipts) = Len(contacts)
       /\ \A i \in 1..Len(MyReceipts) :
            MyReceipts[i].success = 0
              <=> (i - 1) \in NamedPositions(SealKeys, Len(contacts)) )

ErrorCount ==
  Cardinality({ i \in 1..Len(messages) : messages[i].level = "error" })

\* C12: on every failure path of a non-test dispatch the error message is
\* emitted before the fallback write of the status, and exactly one error
\* message is emitted per failed dispatch.
C12_ErrorMessageBeforeFallback ==
  /\ []( (Failed /\ ~test_send)
         => /\ pc = "except" => ErrorCount = 0 /\ writes = <<>>
            /\ pc = "fallback" => ErrorCount = 1 /\ writes = <<>>
            /\ pc \in {"finally", "done"} => ErrorCount = 1 /\ Len(writes) = 1 )
  /\ [][ (Failed /\ ~test_send /\ Len(writes') > Len(writes))
         => ErrorCount = 1 /\ ErrorCount' = 1 ]_vars

C12_Witness_ReportedNotYetWritten ==
  /\ pc = "fallback" /\ ~test_send /\ exc.kind = "error"
  /\ ErrorCount = 1 /\ writes = <<>> /\ db.status = SENT

\* the success messages check_bulk_status queues while it polls
IsProgressMessage(m) ==
  m.level = "success" /\ m.text \in {"initiated", "timed_out"}

\* C13: when a dispatch emits its failure message, the success messages it
\* queued earlier (the per-attempt 'sending initiated' messages and the
\* 'timed out' message) have been discarded: the queue never holds an error
\* message together with stale success messages of the same dispatch.
C13_ErrorDiscardsStaleSuccess ==
  HasErrorMessage
  => \A i \in 1..Len(messages) : ~IsProgressMessage(messages[i])

\* C14: on every exit path of the background run (seal, test-send return,
\* classified failure, test-send classified failure return, unclassified
\* failure) the database connections are released exactly once, and the
\* release is the last action of the run, after any status or Receipt write.
C14_ReleaseOnceAndLast ==
  /\ [](closed = IF pc = "done" THEN 1 ELSE 0)
  /\ [][ (db' # db \/ tx' # tx \/ Len(messages') > Len(messages))
         => closed = 0 /\ closed' = 0 ]_vars
  /\ [][ closed' > closed => pc = "finally" /\ pc' = "done" ]_vars

C14_Witness_TestSendFailureReleased ==
  /\ pc = "done" /\ closed = 1 /\ test_send
  /\ exc.kind = "mailersend" /\ writes = <<>>

\* C15: the dispatch is asynchronous to its caller: send_campaign can return
\* while the background run is still submitting or polling, and every write
\* of the campaign status and every Receipt creation is a step of the
\* background run, never of the caller's path.
C15_AsynchronousDispatch ==
  /\ [](caller = "sleeping" => ENABLED CallerReturn)
  /\ [][ (db' # db \/ tx' # tx)
         => /\ pc \notin {"idle", "done"}
            /\ caller' = caller /\ dispatches' = dispatches ]_vars

C15_Witness_ReturnedWhilePolling ==
  /\ caller = "returned" /\ pc = "poll" /\ ~test_send
  /\ checked_n_amount_of_times = 1 /\ MyReceipts = <<>>

\* the shapes of a raw response
IsWhitespace(tok) == tok.t = "ws"
NotWhitespace(tok) == tok.t # "ws"
\* one JSON text with optional whitespace around it
IsBareJson(text) ==
  /\ Len(SelectSeq(text, NotWhitespace)) = 1
  /\ SelectSeq(text, NotWhitespace)[1].t \in {"json", "num"}
JsonOf(text) ==
  LET tok == SelectSeq(text, NotWhitespace)[1] IN
  IF tok.t = "json" THEN tok.p ELSE JsonNumber
\* an integer code, whitespace, one JSON text
IsCoded(text) ==
  /\ Len(text) >= 3 /\ text[1].t = "num" /\ text[2].t = "ws"
  /\ IsBareJson(SubSeq(text, 3, Len(text)))

IsSentSummary(m) == m.level = "success" /\ m.text = "sent"
IsUnableSummary(m) == m.level = "warning" /\ m.text = "unable"
ReportedSuccessful == SelectSeq(messages, IsSentSummary)[1].n
ReportedUnsuccessful ==
  IF SelectSeq(messages, IsUnableSummary) = <<>> THEN 0
  ELSE SelectSeq(messages, IsUnableSummary)[1].n
ReceiptsWith(flag) ==
  Cardinality({ i \in 1..Len(MyReceipts) : MyReceipts[i].success = flag })

\* C18: the summary of the seal agrees with the Receipts it writes, also
\* when several keys resolve to the same recipient: the reported number of
\* successful recipients is the number of Receipts with success=true, the
\* reported number of unsuccessful recipients is the number of Receipts with
\* success=false, and the two reported numbers sum to the recipient count.
C18_SummaryAgreesWithReceipts ==
  Sealed
  => ( /\ ReportedSuccessful = ReceiptsWith(1)
       /\ ReportedUnsuccessful = ReceiptsWith(0)
       /\ ReportedSuccessful + ReportedUnsuccessful = Len(contacts) )

\* the raw answer carries a bulk status whose state is 'completed'
ReportsCompleted(raw) ==
  \E i \in 1..Len(raw) :
    raw[i].t = "json" /\ raw[i].p.state = BULK_STATE_COMPLETED
SealPositions == {"seal_campaign", "bulk_create", "save", "commit"}

\* C19: within one dispatch the steps are strictly ordered: one submission,
\* which completes before the first status query; status queries one after
\* the other; the seal starts only after a status query has returned the
\* completed state; no status query is issued after the seal starts or after
\* a failure has been caught.
C19_SubmitThenPollThenSeal ==
  /\ [](pc = "send_bulk" => polled = <<>>)
  /\ [][ (pc # "send_bulk" /\ pc' = "send_bulk")
         => dispatches' = dispatches + 1 ]_vars
  /\ [][ (pc = "send_bulk" /\ caller' = caller) => pc' # "send_bulk" ]_vars
  /\ [][ (polled' # polled /\ dispatches' = dispatches)
         => /\ pc = "poll" /\ ~Failed
            /\ polled = SubSeq(polled', 1, Len(polled))
            /\ Len(polled') = Len(polled) + 1 ]_vars
  /\ [](pc \in SealPositions
        => polled # <<>> /\ ReportsCompleted(polled[Len(polled)]))
  /\ [][ (pc \in SealPositions \/ Failed) /\ dispatches' = dispatches
         => polled' = polled /\ pc' # "poll" /\ pc' # "send_bulk" ]_vars

C19_Witness_SealAfterSecondQuery ==
  /\ pc = "seal_campaign" /\ Len(polled) = 2
  /\ ~ReportsCompleted(polled[1]) /\ ReportsCompleted(polled[2])

\* the recipients the submitted messages were rendered for, in order
RenderedFor == [i \in 1..Len(email_messages) |-> email_messages[i].to]

\* C20: the recipient list is stable for the lifetime of a dispatch: the
\* list the seal resolves validation-error indices in is, element for
\* element, the list the submitted messages were rendered from, even if the
\* caller changes its own list after send_campaign has returned.
C20_RecipientListStable ==
  pc \in {"seal_campaign", "bulk_create", "save", "commit"}
  => contacts = RenderedFor


\* C21: over several dispatches of one campaign: in every persisted state in
\* which at least one Receipt exists for the campaign, the persisted status
\* is SENT; the fallback write of a failing dispatch never replaces a SENT
\* status that a sealed dispatch has persisted.
C21_ReceiptsImplySent ==
  (\E i \in 1..Len(db.receipts) : db.receipts[i].campaign_id = CAMPAIGN_ID)
  => db.status = SENT

====
